---- MODULE Spec2Model ----
(***************************************************************************)
(* A model of ci-monitor (src/ci_monitor.py): the notification ledger      *)
(* (SQLite table notified_runs), the poll cycle check_repos, the commands  *)
(* that share their state, the daemon's lifecycle around PID_FILE, and the *)
(* watch list kept in REPOS_FILE.                                          *)
(*                                                                         *)
(* Text that the program parses (a line of REPOS_FILE, an argument of add  *)
(* or remove) is a sequence of one-character strings.                      *)
(*                                                                         *)
(* Time is counted in units of 1/DayLen of a day.  A timestamp text is a   *)
(* triple <<date, separator, time of day>>, compared as SQLite compares    *)
(* TEXT: left to right, the first differing position deciding.             *)
(***************************************************************************)
EXTENDS Integers, Sequences, FiniteSets, TLC

VARIABLES
    now,      \* the current instant (UTC), in units
    tz,       \* the host's offset of local time from UTC, in units
    config,   \* CONFIG_FILE merged over DEFAULT_CONFIG (load_config)
    repos,    \* the lines of REPOS_FILE, each without its newline
    ledger,   \* the rows of table notified_runs in DB_PATH
    logged,   \* per run id, the lines log_event appended to LOG_FILE for it
    spoken,   \* per run id, the calls of speak made for it
    proc,     \* per process running check_repos: its position and locals
    marks,    \* history: per run id, the calls of mark_notified (0, 1, .. MaxMarks = more)
    pending,  \* history: per run id, what its last sighting left undone
    unavailable, \* history: the repos not answered for since their query gave no run
    PID_FILE, \* the daemon marker: the process id in it, NoPid when it does not exist
    ptable,   \* the host's process table: what runs under each process id
    shell,    \* per terminal: the command running in it and what it last printed
    daemon_log, \* the last line a daemon printed to daemon.log
    last,     \* the last add or remove command (or the remove under way), its
              \* argument, its result, and the watch list it found
    overlap,  \* history: a command began while another or a start-up was under way
    latest    \* per repo, the newest run the Run Source holds (NoRun: not followed)

vars == <<now, tz, config, repos, ledger, logged, spoken, proc, marks, pending,
          unavailable, PID_FILE, ptable, shell, daemon_log, last, overlap, latest>>

hist == <<marks, pending, unavailable>>

\* the daemon's lifecycle and the history of the watch-list commands
life == <<PID_FILE, ptable, shell, daemon_log, last, overlap>>

\* the state of the poll cycle, of the ledger and of the Run Source
poll == <<now, tz, config, ledger, logged, spoken, proc, hist, latest>>

-----------------------------------------------------------------------------
(* Bounds of the model *)

\* units per day
DayLen == 2
\* the last day the clock may reach
MaxDays == 17
\* no poll cycle starts once some run was logged this many times
MaxAnnounce == 2
\* the calls of mark_notified counted per run id; further calls count as this
MaxMarks == 2
\* the process ids the host hands out: 1..MaxPid
MaxPid == 2
\* add_repo is not called on a REPOS_FILE of this many lines
MaxLines == 3
\* the values typed to configure check_interval have at most this many
\* characters
MaxText == 2

-----------------------------------------------------------------------------
(* Program constants and domains *)

\* datetime('now', '-7 days')
RETENTION_DAYS == 7

Retention == RETENTION_DAYS * DayLen

\* the instant of the initial state: late enough for now - Retention >= 0
Epoch == (RETENTION_DAYS + 1) * DayLen

\* an idle period longer than the retention window
LongIdle == (RETENTION_DAYS + 1) * DayLen

\* offsets of local time from UTC: behind, equal, ahead
TzOffsets == {-1, 0, 1}

\* a repository identifier is text: a sequence of characters
Widgets == <<"a", "/", "w">>

Gadgets == <<"a", "/", "g">>

Repos == {Widgets, Gadgets}

WatchLists == {<<>>, <<Widgets>>, <<Widgets, Gadgets>>}

\* str(databaseId) of the runs gh can report
RunIds == {"41", "42"}

\* a run belongs to one repository
RunsOf(repo) == IF repo = Widgets THEN {"41"} ELSE {"42"}

Conclusions == {"success", "failure", "cancelled"}

Workflows == {"CI"}

\* the processes that may run check_repos: the daemon loop and `check`
Pollers == {"daemon", "check"}

\* seconds between two cycles of the daemon
DEFAULT_CHECK_INTERVAL == 60

DEFAULT_CONFIG ==
    [check_interval |-> DEFAULT_CHECK_INTERVAL,
     speech_enabled |-> TRUE, notify_success |-> TRUE, notify_failure |-> TRUE]

\* get_latest_run's "no run": None
NoRun == [databaseId |-> "", status |-> "", conclusion |-> "", name |-> ""]

\* the run records gh can print for a repository: an unfinished run has no
\* conclusion yet
RunRecords(repo) ==
    { [databaseId |-> id, status |-> "in_progress", conclusion |-> "", name |-> w]
        : id \in RunsOf(repo), w \in Workflows }
    \cup
    { [databaseId |-> id, status |-> "completed", conclusion |-> c, name |-> w]
        : id \in RunsOf(repo), c \in Conclusions, w \in Workflows }

\* the runs of the Run Source are not followed: it may answer with any run
NoSource == [repo \in Repos |-> NoRun]

\* what subprocess.run of `gh run list` can do: time out, raise (also: print
\* text json.loads rejects), exit non-zero, or exit 0 with a list of runs:
\* --limit 1 makes it the newest run alone, which is any run of the repo
\* where the Run Source is not followed
GhResults(repo) ==
    { [kind |-> "timeout", returncode |-> 0, runs |-> <<>>],
      [kind |-> "raise",   returncode |-> 0, runs |-> <<>>],
      [kind |-> "exit",    returncode |-> 1, runs |-> <<>>] }
    \cup
    ( IF latest[repo] = NoRun
      THEN { [kind |-> "exit", returncode |-> 0, runs |-> <<>>] }
           \cup
           { [kind |-> "exit", returncode |-> 0, runs |-> <<r>>] : r \in RunRecords(repo) }
      ELSE { [kind |-> "exit", returncode |-> 0, runs |-> <<latest[repo]>>] } )

NoResult == [kind |-> "", returncode |-> 0, runs |-> <<>>]

\* how the speech command can end
SpeechResults == {"ok", "nonzero", "timeout", "error", "nocmd"}

SpeechFailures == {"nonzero", "timeout", "error"}

-----------------------------------------------------------------------------
(* Timestamps as text *)

\* datetime.now().isoformat(): local time, 'T' (84) between date and time
IsoFormat(t) == <<t \div DayLen, 84, t % DayLen>>

\* SQLite datetime(...): UTC, ' ' (32) between date and time
SqliteDatetime(t) == <<t \div DayLen, 32, t % DayLen>>

\* a < b on TEXT values
TextLess(a, b) ==
    \/ a[1] < b[1]
    \/ a[1] = b[1] /\ a[2] < b[2]
    \/ a[1] = b[1] /\ a[2] = b[2] /\ a[3] < b[3]

-----------------------------------------------------------------------------
(* The ledger *)

WasNotified(rows, run_id) == \E r \in rows : r.run_id = run_id

\* a mutant of MarkNotified that inserts without replacing
MarkNotifiedNoReplace(rows, run_id, repo, workflow, conclusion, t) ==
    rows \cup { [run_id |-> run_id, repo |-> repo, workflow |-> workflow,
                 conclusion |-> conclusion, notified_at |-> IsoFormat(t)] }

\* a mutant of MarkNotified whose transaction is never committed
MarkNotifiedUncommitted(rows, run_id, repo, workflow, conclusion, t) == rows

\* INSERT OR REPLACE on the primary key run_id, notified_at the local time t
MarkNotified(rows, run_id, repo, workflow, conclusion, t) ==
    { r \in rows : r.run_id # run_id }
    \cup { [run_id |-> run_id, repo |-> repo, workflow |-> workflow,
            conclusion |-> conclusion, notified_at |-> IsoFormat(t)] }

\* DELETE ... WHERE notified_at < datetime('now', '-7 days'), at instant t
Purge(rows, t) ==
    { r \in rows : ~ TextLess(r.notified_at, SqliteDatetime(t - Retention)) }

-----------------------------------------------------------------------------
(* get_latest_run, speak and the decisions of check_repos *)

\* get_latest_run: what it returns for a result of the gh subprocess
GetLatestRun(res) ==
    IF res.kind = "timeout" THEN NoRun
    ELSE IF res.kind = "raise" THEN NoRun
    ELSE IF res.returncode # 0 THEN NoRun
    ELSE IF res.runs # <<>> THEN res.runs[1]
    ELSE NoRun

\* `if not run`
IsNone(run) == run = NoRun

\* a mutant of IsNew that does not consult the ledger
IsNewUnchecked(run, rows) ==
    run.status = "completed" /\ run.databaseId # ""

\* a mutant of IsNew that does not look at the status
IsNewAnyStatus(run, rows) ==
    run.databaseId # "" /\ ~ WasNotified(rows, run.databaseId)

\* status == "completed" and run_id and not was_notified(run_id)
IsNew(run, rows) ==
    /\ run.status = "completed"
    /\ run.databaseId # ""
    /\ ~ WasNotified(rows, run.databaseId)

\* a mutant of ShouldSpeak that stays silent on any other conclusion
ShouldSpeakKnownOnly(conclusion, cfg) ==
    \/ conclusion = "success" /\ cfg.notify_success
    \/ conclusion = "failure" /\ cfg.notify_failure

\* should_speak
ShouldSpeak(conclusion, cfg) ==
    \/ conclusion = "success" /\ cfg.notify_success
    \/ conclusion = "failure" /\ cfg.notify_failure
    \/ conclusion \notin {"success", "failure"}

\* a mutant of SpeakRaises whose handler misses the general exception
SpeakRaisesOnError(result) == result = "error"

\* whether speak lets the failure of its subprocess escape: both handlers
\* (TimeoutExpired, Exception) swallow it
SpeakRaises(result) == FALSE

\* a mutant of SideEffects that writes the ledger first
SideEffectsMarkFirst == <<"mark", "log", "speak">>

\* the order of the side effects of one announcement
SideEffects == <<"log", "speak", "mark">>

StepIndex(s) == CHOOSE k \in 1..Len(SideEffects) : SideEffects[k] = s

\* the locals of a process that is not inside check_repos
Idle ==
    [pc |-> "idle", repos |-> <<>>, config |-> DEFAULT_CONFIG, i |-> 0,
     res |-> NoResult, run |-> NoRun, logged0 |-> 0, spoken0 |-> 0, said |-> ""]

\* the locals of a process that an exception out of check_repos has ended
Exited == [Idle EXCEPT !.pc = "exited"]

\* a mutant of Continue that leaves the loop
ContinueBreaks(l) == [l EXCEPT !.pc = "done"]

\* `continue`, or the end of the loop body: on to the next repo, if any
Continue(l) ==
    IF l.i < Len(l.repos)
    THEN [l EXCEPT !.pc = "fetch", !.i = @ + 1]
    ELSE [l EXCEPT !.pc = "done"]

\* after side effect s: the next one, or the end of the loop body
Proceed(l, s) ==
    IF StepIndex(s) < Len(SideEffects)
    THEN [l EXCEPT !.pc = SideEffects[StepIndex(s) + 1]]
    ELSE Continue(l)

-----------------------------------------------------------------------------
(* The watch list: REPOS_FILE as text *)

RECURSIVE LStrip(_)
LStrip(t) == IF t # <<>> /\ Head(t) = " " THEN LStrip(Tail(t)) ELSE t

RECURSIVE RStrip(_)
RStrip(t) == IF t # <<>> /\ t[Len(t)] = " " THEN RStrip(SubSeq(t, 1, Len(t) - 1)) ELSE t

\* str.strip()
Strip(t) == RStrip(LStrip(t))

\* str.count(c)
Count(t, c) == Cardinality({ k \in 1..Len(t) : t[k] = c })

\* str.startswith(c)
StartsWith(t, c) == t # <<>> /\ t[1] = c

\* the lines get_repos keeps: not blank once stripped, not starting with '#'
Kept(line) == Strip(line) # <<>> /\ ~ StartsWith(line, "#")

\* get_repos(): the kept lines, stripped
GetRepos(file) ==
    LET kept == SelectSeq(file, Kept)
    IN  [k \in 1..Len(kept) |-> Strip(kept[k])]

\* `x in list`
In(x, list) == \E k \in 1..Len(list) : list[k] = x

\* list.remove(x): the list without the first x
RECURSIVE Remove(_, _)
Remove(list, x) ==
    IF list = <<>> THEN <<>>
    ELSE IF Head(list) = x THEN Tail(list)
    ELSE <<Head(list)>> \o Remove(Tail(list), x)

\* a mutant of ValidFormat that only asks for a separator
ValidFormatSomeSeparator(repo) == Count(repo, "/") > 0

\* add_repo's test of the format: not ("/" not in repo or repo.count("/") != 1)
ValidFormat(repo) == ~ (Count(repo, "/") = 0 \/ Count(repo, "/") # 1)

\* what add_repo returns, and the file it leaves
AddRepoResult(file, repo) ==
    IF ~ ValidFormat(repo) THEN [ret |-> FALSE, file |-> file]
    ELSE IF In(repo, GetRepos(file)) THEN [ret |-> FALSE, file |-> file]
    ELSE [ret |-> TRUE, file |-> Append(file, repo)]

\* what remove_repo returns, and the file it leaves: the file is written
\* again from the list get_repos gave
RemoveRepoResult(file, repo) ==
    IF ~ In(repo, GetRepos(file)) THEN [ret |-> FALSE, file |-> file]
    ELSE [ret |-> TRUE, file |-> Remove(GetRepos(file), repo)]

-----------------------------------------------------------------------------
(* The poll cycle, check_repos, of process p *)

\* one more call of mark_notified in the history count
Bump(n) == IF n < MaxMarks THEN n + 1 ELSE n

\* load_config, get_repos, `if not repos: return`
StartCycle(p) ==
    /\ proc[p].pc = "idle"
    /\ \A id \in RunIds : logged[id] < MaxAnnounce
    /\ proc' = [proc EXCEPT ![p] =
                 IF GetRepos(repos) = <<>> THEN Idle
                 ELSE [Idle EXCEPT !.pc = "fetch", !.repos = GetRepos(repos),
                                   !.config = config, !.i = 1]]
    /\ UNCHANGED <<now, tz, config, repos, ledger, logged, spoken, hist, life, latest>>

\* run = get_latest_run(repo) and the test of the run it returned
Fetch(p) ==
    /\ proc[p].pc = "fetch"
    /\ \E res \in GhResults(proc[p].repos[proc[p].i]) :
         LET run == GetLatestRun(res)
             l   == [proc[p] EXCEPT !.res = res, !.run = run, !.said = "",
                                    !.logged0 = 0, !.spoken0 = 0]
         IN
         /\ proc' = [proc EXCEPT ![p] =
                 IF IsNone(run) THEN Continue(l)
                 ELSE IF IsNew(run, ledger)
                      THEN [l EXCEPT !.pc = SideEffects[1],
                                     !.logged0 = logged[run.databaseId],
                                     !.spoken0 = spoken[run.databaseId]]
                      ELSE Continue(l)]
         /\ unavailable' = IF IsNone(run)
                           THEN unavailable \cup {proc[p].repos[proc[p].i]}
                           ELSE IF IsNew(run, ledger) THEN unavailable
                           ELSE unavailable \ {proc[p].repos[proc[p].i]}
         /\ pending' = IF /\ run.status # "completed"
                          /\ run.databaseId \in RunIds
                          /\ \A r \in ledger : r.run_id # run.databaseId
                       THEN [pending EXCEPT ![run.databaseId] = "unfinished"]
                       ELSE pending
    /\ UNCHANGED <<now, tz, config, repos, ledger, logged, spoken, marks, life, latest>>

\* log_event(repo, workflow, conclusion)
LogStep(p) ==
    /\ proc[p].pc = "log"
    /\ logged' = [logged EXCEPT ![proc[p].run.databaseId] = @ + 1]
    /\ proc' = [proc EXCEPT ![p] = Proceed(@, "log")]
    /\ UNCHANGED <<now, tz, config, repos, ledger, spoken, hist, life, latest>>

\* should_speak and speak(message): speak reads the config again
SpeakStep(p) ==
    /\ proc[p].pc = "speak"
    /\ IF ShouldSpeak(proc[p].run.conclusion, proc[p].config)
       THEN /\ spoken' = [spoken EXCEPT ![proc[p].run.databaseId] = @ + 1]
            /\ \E result \in SpeechResults :
                 LET said == IF config.speech_enabled THEN result ELSE "disabled"
                 IN  proc' = [proc EXCEPT ![p] =
                         IF said \in SpeechFailures /\ SpeakRaises(said)
                         THEN Exited
                         ELSE Proceed([@ EXCEPT !.said = said], "speak")]
       ELSE /\ spoken' = spoken
            /\ proc' = [proc EXCEPT ![p] = Proceed([@ EXCEPT !.said = "gated"], "speak")]
    /\ UNCHANGED <<now, tz, config, repos, ledger, logged, hist, life, latest>>

\* mark_notified(run_id, repo, workflow, conclusion)
MarkStep(p) ==
    /\ proc[p].pc = "mark"
    /\ ledger' = MarkNotified(ledger, proc[p].run.databaseId,
                              proc[p].repos[proc[p].i], proc[p].run.name,
                              proc[p].run.conclusion, now + tz)
    /\ proc' = [proc EXCEPT ![p] = Proceed(@, "mark")]
    /\ marks' = [marks EXCEPT ![proc[p].run.databaseId] = Bump(@)]
    /\ pending' = [pending EXCEPT ![proc[p].run.databaseId] =
                      IF proc[p].said \in SpeechFailures THEN "unspoken" ELSE ""]
    /\ unavailable' = unavailable \ {proc[p].repos[proc[p].i]}
    /\ UNCHANGED <<now, tz, config, repos, logged, spoken, life, latest>>

\* check_repos returns: the daemon goes to sleep, `check` ends
Return(p) ==
    /\ proc[p].pc = "done"
    /\ proc' = [proc EXCEPT ![p] = Idle]
    /\ UNCHANGED <<now, tz, config, repos, ledger, logged, spoken, hist, life, latest>>

\* the process is killed inside check_repos (SIGTERM, power loss)
Crash(p) ==
    /\ proc[p].pc \notin {"idle", "done", "exited"}
    /\ proc' = [proc EXCEPT ![p] = Idle]
    /\ pending' = IF /\ proc[p].pc \in {"log", "speak", "mark"}
                     /\ logged[proc[p].run.databaseId] > proc[p].logged0
                  THEN [pending EXCEPT ![proc[p].run.databaseId] = "interrupted"]
                  ELSE pending
    /\ UNCHANGED <<now, tz, config, repos, ledger, logged, spoken, marks, unavailable, life, latest>>

-----------------------------------------------------------------------------
(* The commands that share the state *)

\* init_db, run by main() at the start of every command
InitDb ==
    /\ ledger' = Purge(ledger, now)
    /\ UNCHANGED <<now, tz, config, repos, logged, spoken, proc, hist, life, latest>>

\* mark_notified called on its own
MarkNotifiedCall(run_id, repo, workflow, conclusion) ==
    /\ ledger' = MarkNotified(ledger, run_id, repo, workflow, conclusion, now + tz)
    /\ marks' = [marks EXCEPT ![run_id] = Bump(@)]
    /\ pending' = [pending EXCEPT ![run_id] = ""]
    /\ UNCHANGED <<now, tz, config, repos, logged, spoken, proc, unavailable, life, latest>>

\* configure(key, value) for the boolean keys
Configure(key, value) ==
    /\ config' = [config EXCEPT ![key] = value]
    /\ UNCHANGED <<now, tz, repos, ledger, logged, spoken, proc, hist, life, latest>>

\* d units pass while no process is inside check_repos
Tick(d) ==
    /\ \A p \in Pollers : proc[p].pc = "idle"
    /\ now + d <= MaxDays * DayLen
    /\ now' = now + d
    /\ UNCHANGED <<tz, config, repos, ledger, logged, spoken, proc, hist, life, latest>>

-----------------------------------------------------------------------------
(* The daemon's lifecycle: PID_FILE, daemon_running, start, stop, status *)

Pids == 1..MaxPid

\* daemon_running's None: no process id
NoPid == 0

\* the process id of the daemon that polls in the initial state
DaemonPid == 1

\* the terminals commands are typed in
Shells == {"s1", "s2"}

\* what runs under a process id: nothing, the child start_daemon forked
\* (before it wrote PID_FILE), a daemon inside run_daemon_loop, or a process
\* of another user
ProcStates == {"free", "child", "loop", "foreign"}

\* os.kill(pid, sig) by a command of this user
OsKill(pid, table) ==
    IF table[pid] = "free" THEN "ProcessLookupError"
    ELSE IF table[pid] = "foreign" THEN "PermissionError"
    ELSE "ok"

\* a mutant of DaemonRunning that leaves a stale PID_FILE in place
DaemonRunningKeepsStale(marker, table) ==
    IF marker = NoPid THEN [running |-> FALSE, pid |-> NoPid, marker |-> NoPid]
    ELSE IF OsKill(marker, table) = "ok"
         THEN [running |-> TRUE, pid |-> marker, marker |-> marker]
         ELSE [running |-> FALSE, pid |-> NoPid, marker |-> marker]

\* a mutant of DaemonRunning that answers without probing the process
DaemonRunningNoProbe(marker, table) ==
    [running |-> FALSE, pid |-> NoPid, marker |-> NoPid]

\* a mutant of DaemonRunning that removes PID_FILE whatever it finds
DaemonRunningUnlinks(marker, table) ==
    IF marker = NoPid THEN [running |-> FALSE, pid |-> NoPid, marker |-> NoPid]
    ELSE IF OsKill(marker, table) = "ok"
         THEN [running |-> TRUE, pid |-> marker, marker |-> NoPid]
         ELSE [running |-> FALSE, pid |-> NoPid, marker |-> NoPid]

\* daemon_running(): (running, pid), and PID_FILE as it leaves it; any of
\* ProcessLookupError and PermissionError unlinks PID_FILE
DaemonRunning(marker, table) ==
    IF marker = NoPid THEN [running |-> FALSE, pid |-> NoPid, marker |-> NoPid]
    ELSE IF OsKill(marker, table) = "ok"
         THEN [running |-> TRUE, pid |-> marker, marker |-> marker]
         ELSE [running |-> FALSE, pid |-> NoPid, marker |-> NoPid]

\* a mutant of Preconditions that does not look at the watch list
PreconditionsIgnoreWatch(watch, gh) == IF ~ gh THEN "start:nogh" ELSE "ok"

\* start_daemon's tests before the fork: `if not repos`, then `which gh`
Preconditions(watch, gh) ==
    IF watch = <<>> THEN "start:norepos"
    ELSE IF ~ gh THEN "start:nogh"
    ELSE "ok"

\* a mutant of StopSignal that unlinks PID_FILE also when the signal fails
StopSignalAlwaysUnlinks(pid, marker, table) ==
    IF OsKill(pid, table) = "ok"
    THEN [table |-> [table EXCEPT ![pid] = "free"], marker |-> NoPid, out |-> "stop:ok"]
    ELSE [table |-> table, marker |-> NoPid, out |-> "stop:error"]

\* stop_daemon's try block: os.kill(pid, 15), then unlink; an exception of
\* os.kill skips the unlink
StopSignal(pid, marker, table) ==
    IF OsKill(pid, table) = "ok"
    THEN [table |-> [table EXCEPT ![pid] = "free"], marker |-> NoPid, out |-> "stop:ok"]
    ELSE [table |-> table, marker |-> marker, out |-> "stop:error"]

\* a mutant of LoopFinally that leaves PID_FILE in place
LoopFinallyKeeps(marker) == marker

\* run_daemon_loop's finally: PID_FILE.unlink(missing_ok=True)
LoopFinally(marker) == NoPid

\* a terminal with no command running: saw is the process id daemon_running
\* read from PID_FILE, pid the one it returned, out what was printed last
Quiet == [pc |-> "idle", saw |-> NoPid, pid |-> NoPid, out |-> ""]

\* a command of terminal s begins while another command, or the start-up of
\* a forked child, is under way
Busy(s) ==
    \/ \E t \in Shells \ {s} : shell[t].pc # "idle"
    \/ \E q \in Pids : ptable[q] = "child"

\* start_daemon up to `if running: ... return`
StartCheck(s) ==
    /\ shell[s].pc = "idle"
    /\ LET d == DaemonRunning(PID_FILE, ptable)
       IN  /\ PID_FILE' = d.marker
           /\ shell' = [shell EXCEPT ![s] =
                   [pc  |-> IF d.running THEN "idle" ELSE "start",
                    saw |-> PID_FILE, pid |-> d.pid,
                    out |-> IF d.running THEN "start:already" ELSE ""]]
    /\ overlap' = (overlap \/ Busy(s))
    /\ UNCHANGED <<poll, repos, ptable, daemon_log, last>>

\* start_daemon from get_repos() to the parent's return after os.fork()
StartFork(s) ==
    /\ shell[s].pc = "start"
    /\ \E gh \in BOOLEAN, child \in Pids :
         LET pre == Preconditions(GetRepos(repos), gh)
         IN  IF pre # "ok"
             THEN /\ ptable' = ptable
                  /\ shell' = [shell EXCEPT ![s] = [Quiet EXCEPT !.out = pre]]
             ELSE IF \A q \in Pids : ptable[q] # "free"
             THEN /\ ptable' = ptable
                  /\ shell' = [shell EXCEPT ![s] = [Quiet EXCEPT !.out = "start:error"]]
             ELSE /\ ptable[child] = "free"
                  /\ ptable' = [ptable EXCEPT ![child] = "child"]
                  /\ shell' = [shell EXCEPT ![s] =
                                 [Quiet EXCEPT !.out = "start:ok", !.pid = child]]
    /\ UNCHANGED <<poll, repos, PID_FILE, daemon_log, last, overlap>>

\* the forked child: setsid, PID_FILE.write_text(pid), run_daemon_loop begins
ChildStart(pid) ==
    /\ ptable[pid] = "child"
    /\ PID_FILE' = pid
    /\ ptable' = [ptable EXCEPT ![pid] = "loop"]
    /\ daemon_log' = "started"
    /\ UNCHANGED <<poll, repos, shell, last, overlap>>

\* an exception leaves check_repos or time.sleep in daemon pid: except, finally
LoopFail(pid) ==
    /\ ptable[pid] = "loop"
    /\ PID_FILE' = LoopFinally(PID_FILE)
    /\ ptable' = [ptable EXCEPT ![pid] = "free"]
    /\ daemon_log' = "error"
    /\ UNCHANGED <<poll, repos, shell, last, overlap>>

\* the daemon or the forked child is killed from outside: no handler runs
Kill(pid) ==
    /\ ptable[pid] \in {"child", "loop"}
    /\ ptable' = [ptable EXCEPT ![pid] = "free"]
    /\ UNCHANGED <<poll, repos, PID_FILE, shell, daemon_log, last, overlap>>

\* the host gives a free process id to a process of another user
Reuse(pid) ==
    /\ ptable[pid] = "free"
    /\ ptable' = [ptable EXCEPT ![pid] = "foreign"]
    /\ UNCHANGED <<poll, repos, PID_FILE, shell, daemon_log, last, overlap>>

\* that process ends
Exit(pid) ==
    /\ ptable[pid] = "foreign"
    /\ ptable' = [ptable EXCEPT ![pid] = "free"]
    /\ UNCHANGED <<poll, repos, PID_FILE, shell, daemon_log, last, overlap>>

\* stop_daemon up to `if not running: ... return`
StopCheck(s) ==
    /\ shell[s].pc = "idle"
    /\ LET d == DaemonRunning(PID_FILE, ptable)
       IN  /\ PID_FILE' = d.marker
           /\ shell' = [shell EXCEPT ![s] =
                   [pc  |-> IF d.running THEN "stop" ELSE "idle",
                    saw |-> PID_FILE, pid |-> d.pid,
                    out |-> IF d.running THEN "" ELSE "stop:notrunning"]]
    /\ overlap' = (overlap \/ Busy(s))
    /\ UNCHANGED <<poll, repos, ptable, daemon_log, last>>

\* stop_daemon's try block
StopKill(s) ==
    /\ shell[s].pc = "stop"
    /\ LET r == StopSignal(shell[s].pid, PID_FILE, ptable)
       IN  /\ ptable' = r.table
           /\ PID_FILE' = r.marker
           /\ shell' = [shell EXCEPT ![s] = [@ EXCEPT !.pc = "idle", !.out = r.out]]
    /\ UNCHANGED <<poll, repos, daemon_log, last, overlap>>

\* show_status()
ShowStatus(s) ==
    /\ shell[s].pc = "idle"
    /\ LET d == DaemonRunning(PID_FILE, ptable)
       IN  /\ PID_FILE' = d.marker
           /\ shell' = [shell EXCEPT ![s] =
                   [pc  |-> "idle", saw |-> PID_FILE, pid |-> d.pid,
                    out |-> IF d.running THEN "status:running" ELSE "status:stopped"]]
    /\ overlap' = (overlap \/ Busy(s))
    /\ UNCHANGED <<poll, repos, ptable, daemon_log, last>>

-----------------------------------------------------------------------------
(* The watch-list commands *)

\* the cores of the arguments given to add and remove: two identifiers, one
\* with no separator, one with two
ArgCores == {Widgets, Gadgets, <<"w">>, <<"a", "/", "w", "/", "c">>}

\* as typed, after a space, or after a '#'
Args == ArgCores \cup { <<c>> \o a : c \in {" ", "#"}, a \in ArgCores }

\* a comment line of a REPOS_FILE edited by hand
CommentLine == <<"#", "c">>

\* no add or remove yet
NoCall == [op |-> "", arg |-> <<>>, ret |-> FALSE, watch |-> <<>>]

\* add_repo(repo)
AddRepo(repo) ==
    /\ Len(repos) < MaxLines
    /\ repos' = AddRepoResult(repos, repo).file
    /\ last' = [op |-> "add", arg |-> repo, ret |-> AddRepoResult(repos, repo).ret,
                watch |-> GetRepos(repos)]
    /\ UNCHANGED <<poll, PID_FILE, ptable, shell, daemon_log, overlap>>

\* remove_repo(repo)
RemoveRepo(repo) ==
    /\ repos' = RemoveRepoResult(repos, repo).file
    /\ last' = [op |-> "remove", arg |-> repo, ret |-> RemoveRepoResult(repos, repo).ret,
                watch |-> GetRepos(repos)]
    /\ UNCHANGED <<poll, PID_FILE, ptable, shell, daemon_log, overlap>>

\* remove_repo(repo) up to open(REPOS_FILE, "w"): the list is read, the
\* identifier is looked up, and opening for writing empties the file; the
\* lines to write are kept by the command (last.watch and last.arg)
RemoveOpen(repo) ==
    /\ last.op # "removing"
    /\ repos' = IF In(repo, GetRepos(repos)) THEN <<>> ELSE repos
    /\ last' = [op |-> IF In(repo, GetRepos(repos)) THEN "removing" ELSE "remove",
                arg |-> repo, ret |-> FALSE, watch |-> GetRepos(repos)]
    /\ UNCHANGED <<poll, PID_FILE, ptable, shell, daemon_log, overlap>>

\* the rest of remove_repo: the lines written reach the file when it is
\* closed (a list within the buffer of the file object is written at once)
RemoveWrite ==
    /\ last.op = "removing"
    /\ repos' = Remove(last.watch, last.arg)
    /\ last' = [last EXCEPT !.op = "remove", !.ret = TRUE]
    /\ UNCHANGED <<poll, PID_FILE, ptable, shell, daemon_log, overlap>>

-----------------------------------------------------------------------------
(* configure check_interval <value> *)

\* the characters of the values typed: a sign, two digits, a letter, a blank
IntervalChars == {"-", "0", "5", "x", " "}

\* the values typed, the empty one included
IntervalTexts == UNION { [1..n -> IntervalChars] : n \in 0..MaxText }

DigitChars == <<"0", "1", "2", "3", "4", "5", "6", "7", "8", "9">>

IsDigit(c) == \E k \in 1..Len(DigitChars) : DigitChars[k] = c

DigitValue(c) == (CHOOSE k \in 1..Len(DigitChars) : DigitChars[k] = c) - 1

RECURSIVE DecimalValue(_)
DecimalValue(t) ==
    IF t = <<>> THEN 0
    ELSE 10 * DecimalValue(SubSeq(t, 1, Len(t) - 1)) + DigitValue(t[Len(t)])

\* int(value): blanks around the text are dropped, a sign may lead, one digit
\* at least follows and nothing else; ok is FALSE where int raises ValueError
IntOf(value) ==
    LET t      == Strip(value)
        signed == t # <<>> /\ Head(t) \in {"-", "+"}
        digits == IF signed THEN Tail(t) ELSE t
        ok     == digits # <<>> /\ \A k \in 1..Len(digits) : IsDigit(digits[k])
    IN  [ok |-> ok,
         n  |-> IF ~ ok THEN 0
                ELSE IF signed /\ Head(t) = "-" THEN 0 - DecimalValue(digits)
                ELSE DecimalValue(digits)]

\* configure("check_interval", value), typed in terminal s
ConfigureCheckInterval(s, value) ==
    /\ shell[s].pc = "idle"
    /\ config' = IF IntOf(value).ok
                 THEN [config EXCEPT !.check_interval = IntOf(value).n]
                 ELSE config
    /\ shell' = [shell EXCEPT ![s].out =
                   IF IntOf(value).ok THEN "config:set" ELSE "config:invalid"]
    /\ UNCHANGED <<now, tz, repos, ledger, logged, spoken, proc, hist,
                   PID_FILE, ptable, daemon_log, last, overlap, latest>>

-----------------------------------------------------------------------------
(* A Run Source whose runs are followed *)

\* the first run of a repo, started and not yet finished
FirstRun(repo) ==
    [databaseId |-> CHOOSE id \in RunsOf(repo) : TRUE, status |-> "in_progress",
     conclusion |-> "", name |-> CHOOSE w \in Workflows : TRUE]

\* a run started after the first one; it is not followed to its end
NewerRun ==
    [databaseId |-> "43", status |-> "in_progress", conclusion |-> "",
     name |-> CHOOSE w \in Workflows : TRUE]

\* the newest run of the repo finishes
Complete(repo) ==
    /\ latest[repo].databaseId \in RunsOf(repo)
    /\ latest[repo].status = "in_progress"
    /\ \E c \in Conclusions :
         latest' = [latest EXCEPT ![repo] = [@ EXCEPT !.status = "completed",
                                                      !.conclusion = c]]
    /\ UNCHANGED <<now, tz, config, repos, ledger, logged, spoken, proc, hist, life>>

\* a newer run of the repo starts: `gh run list --limit 1` prints it from now on
Supersede(repo) ==
    /\ latest[repo].databaseId \in RunsOf(repo)
    /\ latest' = [latest EXCEPT ![repo] = NewerRun]
    /\ UNCHANGED <<now, tz, config, repos, ledger, logged, spoken, proc, hist, life>>

\* get_latest_run(repo) of the daemon returns a run
Answer(repo) ==
    /\ Fetch("daemon")
    /\ proc["daemon"].repos[proc["daemon"].i] = repo
    /\ ~ IsNone(proc'["daemon"].run)

-----------------------------------------------------------------------------
(* Specifications *)

\* a daemon is inside run_daemon_loop, no command is running
DaemonUp ==
    /\ PID_FILE = DaemonPid
    /\ ptable = [pid \in Pids |-> IF pid = DaemonPid THEN "loop" ELSE "free"]
    /\ shell = [s \in Shells |-> Quiet]
    /\ daemon_log = "started"
    /\ last = NoCall
    /\ overlap = FALSE

\* no daemon was started yet, no command is running
DaemonDown ==
    /\ PID_FILE = NoPid
    /\ ptable = [pid \in Pids |-> "free"]
    /\ shell = [s \in Shells |-> Quiet]
    /\ daemon_log = ""
    /\ last = NoCall
    /\ overlap = FALSE

\* the state after the first init_db, with a watch list in place
Init ==
    /\ now = Epoch
    /\ tz = 0
    /\ config = DEFAULT_CONFIG
    /\ repos \in WatchLists
    /\ ledger = {}
    /\ logged = [id \in RunIds |-> 0]
    /\ spoken = [id \in RunIds |-> 0]
    /\ proc = [p \in Pollers |-> Idle]
    /\ marks = [id \in RunIds |-> 0]
    /\ pending = [id \in RunIds |-> ""]
    /\ unavailable = {}
    /\ latest = NoSource
    /\ DaemonUp

\* one step of check_repos in process p
Poll(p) ==
    \/ StartCycle(p)
    \/ Fetch(p)
    \/ LogStep(p)
    \/ SpeakStep(p)
    \/ MarkStep(p)
    \/ Return(p)

\* the daemon polls, commands run init_db and configure, time passes in
\* long idle periods
Next ==
    \/ Poll("daemon")
    \/ InitDb
    \/ \E key \in {"notify_success", "notify_failure"}, v \in BOOLEAN :
         Configure(key, v)
    \/ Tick(LongIdle)

Spec == Init /\ [][Next]_vars

\* the daemon polls and may be killed inside a cycle; the user toggles speech
NextCrash ==
    \/ Poll("daemon")
    \/ Crash("daemon")
    \/ \E v \in BOOLEAN : Configure("speech_enabled", v)

SpecCrash == Init /\ [][NextCrash]_vars

\* mark_notified and init_db called on their own, as the tests call them,
\* over long idle periods
NextLedger ==
    \/ \E id \in RunIds, repo \in Repos, w \in Workflows, c \in Conclusions :
         MarkNotifiedCall(id, repo, w, c)
    \/ InitDb
    \/ Tick(LongIdle)

SpecLedger == Init /\ [][NextLedger]_vars

\* as Init, on a host in any time zone
InitPurge ==
    /\ now = Epoch
    /\ tz \in TzOffsets
    /\ config = DEFAULT_CONFIG
    /\ repos = <<>>
    /\ ledger = {}
    /\ logged = [id \in RunIds |-> 0]
    /\ spoken = [id \in RunIds |-> 0]
    /\ proc = [p \in Pollers |-> Idle]
    /\ marks = [id \in RunIds |-> 0]
    /\ pending = [id \in RunIds |-> ""]
    /\ unavailable = {}
    /\ latest = NoSource
    /\ DaemonUp

\* mark_notified and init_db as the clock advances unit by unit
NextPurge ==
    \/ \E id \in RunIds : MarkNotifiedCall(id, Widgets, "CI", "success")
    \/ InitDb
    \/ Tick(1)

SpecPurge == InitPurge /\ [][NextPurge]_vars

\* the daemon alone: cycle after cycle, each step taken in the end
NextLoop == Poll("daemon")

SpecLoop == Init /\ [][NextLoop]_vars /\ WF_vars(NextLoop)

\* before any start, with or without a watch list
InitLife ==
    /\ now = Epoch
    /\ tz = 0
    /\ config = DEFAULT_CONFIG
    /\ repos \in {<<>>, <<Widgets>>}
    /\ ledger = {}
    /\ logged = [id \in RunIds |-> 0]
    /\ spoken = [id \in RunIds |-> 0]
    /\ proc = [p \in Pollers |-> Idle]
    /\ marks = [id \in RunIds |-> 0]
    /\ pending = [id \in RunIds |-> ""]
    /\ unavailable = {}
    /\ latest = NoSource
    /\ DaemonDown

\* start, stop and status typed in two terminals, step by step; daemons
\* start up, fail and are killed; process ids are used by others
NextLife ==
    \/ \E s \in Shells :
         \/ StartCheck(s)
         \/ StartFork(s)
         \/ StopCheck(s)
         \/ StopKill(s)
         \/ ShowStatus(s)
    \/ \E pid \in Pids :
         \/ ChildStart(pid)
         \/ LoopFail(pid)
         \/ Kill(pid)
         \/ Reuse(pid)
         \/ Exit(pid)

SpecLife == InitLife /\ [][NextLife]_vars

\* a REPOS_FILE the commands wrote, or one edited by hand
InitRepos ==
    /\ now = Epoch
    /\ tz = 0
    /\ config = DEFAULT_CONFIG
    /\ repos \in WatchLists \cup {<<CommentLine, Gadgets>>}
    /\ ledger = {}
    /\ logged = [id \in RunIds |-> 0]
    /\ spoken = [id \in RunIds |-> 0]
    /\ proc = [p \in Pollers |-> Idle]
    /\ marks = [id \in RunIds |-> 0]
    /\ pending = [id \in RunIds |-> ""]
    /\ unavailable = {}
    /\ latest = NoSource
    /\ DaemonDown

\* add and remove, one command after the other
NextRepos ==
    \/ \E repo \in Args : AddRepo(repo)
    \/ \E repo \in Args : RemoveRepo(repo)

SpecRepos == InitRepos /\ [][NextRepos]_vars

\* an empty watch list, and add and remove one command after the other
InitWatch ==
    /\ now = Epoch
    /\ tz = 0
    /\ config = DEFAULT_CONFIG
    /\ repos = <<>>
    /\ ledger = {}
    /\ logged = [id \in RunIds |-> 0]
    /\ spoken = [id \in RunIds |-> 0]
    /\ proc = [p \in Pollers |-> Idle]
    /\ marks = [id \in RunIds |-> 0]
    /\ pending = [id \in RunIds |-> ""]
    /\ unavailable = {}
    /\ latest = NoSource
    /\ DaemonDown

SpecWatch == InitWatch /\ [][NextRepos]_vars

\* a daemon polls the two repos of the watch list while add and remove
\* commands, one after the other, change it
InitRewrite ==
    /\ now = Epoch
    /\ tz = 0
    /\ config = DEFAULT_CONFIG
    /\ repos = <<Widgets, Gadgets>>
    /\ ledger = {}
    /\ logged = [id \in RunIds |-> 0]
    /\ spoken = [id \in RunIds |-> 0]
    /\ proc = [p \in Pollers |-> Idle]
    /\ marks = [id \in RunIds |-> 0]
    /\ pending = [id \in RunIds |-> ""]
    /\ unavailable = {}
    /\ latest = NoSource
    /\ DaemonUp

NextRewrite ==
    \/ Poll("daemon")
    \/ \E repo \in Repos : RemoveOpen(repo)
    \/ RemoveWrite
    \/ \E repo \in Repos : last.op # "removing" /\ AddRepo(repo)

SpecRewrite == InitRewrite /\ [][NextRewrite]_vars

\* the configuration of a new installation, and configure commands
InitConfig ==
    /\ now = Epoch
    /\ tz = 0
    /\ config = DEFAULT_CONFIG
    /\ repos = <<>>
    /\ ledger = {}
    /\ logged = [id \in RunIds |-> 0]
    /\ spoken = [id \in RunIds |-> 0]
    /\ proc = [p \in Pollers |-> Idle]
    /\ marks = [id \in RunIds |-> 0]
    /\ pending = [id \in RunIds |-> ""]
    /\ unavailable = {}
    /\ latest = NoSource
    /\ DaemonDown

NextConfig ==
    \/ \E s \in Shells, value \in IntervalTexts : ConfigureCheckInterval(s, value)
    \/ \E key \in {"speech_enabled", "notify_success", "notify_failure"}, v \in BOOLEAN :
         Configure(key, v)

SpecConfig == InitConfig /\ [][NextConfig]_vars

\* the daemon polls one repo, and check commands typed meanwhile poll it too
InitRace ==
    /\ now = Epoch
    /\ tz = 0
    /\ config = DEFAULT_CONFIG
    /\ repos = <<Widgets>>
    /\ ledger = {}
    /\ logged = [id \in RunIds |-> 0]
    /\ spoken = [id \in RunIds |-> 0]
    /\ proc = [p \in Pollers |-> Idle]
    /\ marks = [id \in RunIds |-> 0]
    /\ pending = [id \in RunIds |-> ""]
    /\ unavailable = {}
    /\ latest = NoSource
    /\ DaemonUp

NextRace ==
    \/ Poll("daemon")
    \/ Poll("check")

SpecRace == InitRace /\ [][NextRace]_vars

\* the daemon polls two repos whose runs finish or are superseded; the
\* daemon goes on for ever, and the Run Source does not fail for ever
InitSource ==
    /\ now = Epoch
    /\ tz = 0
    /\ config = DEFAULT_CONFIG
    /\ repos = <<Widgets, Gadgets>>
    /\ ledger = {}
    /\ logged = [id \in RunIds |-> 0]
    /\ spoken = [id \in RunIds |-> 0]
    /\ proc = [p \in Pollers |-> Idle]
    /\ marks = [id \in RunIds |-> 0]
    /\ pending = [id \in RunIds |-> ""]
    /\ unavailable = {}
    /\ latest = [repo \in Repos |-> FirstRun(repo)]
    /\ DaemonUp

NextSource ==
    \/ Poll("daemon")
    \/ \E repo \in Repos :
         \/ Complete(repo)
         \/ Supersede(repo)

SpecSource ==
    /\ InitSource
    /\ [][NextSource]_vars
    /\ WF_vars(Poll("daemon"))
    /\ \A repo \in Repos : SF_vars(Answer(repo))

-----------------------------------------------------------------------------
(* Vocabulary of the claims *)

\* the ledger rows of a run id
RowsOf(rows, id) == { r \in rows : r.run_id = id }

Has(rows, id) == RowsOf(rows, id) # {}

\* process p is between the decision to announce a run and the end of its
\* announcement
Announcing(p) == proc[p].pc \in {"log", "speak", "mark"}

\* the step is the query of the Run Source by process p
Fetched(p) == proc[p].pc = "fetch" /\ proc'[p] # proc[p]

\* the step ends an announcement of process p without a crash
Announced(p) == Announcing(p) /\ proc'[p].pc \in {"fetch", "done"}

\* the repo got no announcement: the loop went on to the next repo or ended
Skipped(p) ==
    /\ proc'[p].pc = (IF proc[p].i < Len(proc[p].repos) THEN "fetch" ELSE "done")
    /\ proc'[p].i = (IF proc[p].i < Len(proc[p].repos) THEN proc[p].i + 1 ELSE proc[p].i)
    /\ proc'[p].repos = proc[p].repos
    /\ UNCHANGED <<ledger, logged, spoken, life>>

\* the conclusion/config gate of the speech
GateOn(conclusion, cfg) ==
    \/ conclusion = "success" /\ cfg.notify_success
    \/ conclusion = "failure" /\ cfg.notify_failure
    \/ (conclusion # "success" /\ conclusion # "failure")

-----------------------------------------------------------------------------
(* C1 *)

\* C1: over a whole execution without a crash inside a cycle, with init_db
\* interleaved, every run id gets at most one Activity Log line and at most
\* one call of speak.
C1_AnnouncedAtMostOnce ==
    \A id \in RunIds : logged[id] <= 1 /\ spoken[id] <= 1

-----------------------------------------------------------------------------
(* C2 *)

\* C2: a completed run whose id is not in the Ledger is announced, and its
\* announcement makes exactly one Activity Log append, one call of speak when
\* the gate is on and none when it is off, and leaves exactly one Ledger row
\* with its id.
C2_NewRunAnnouncedOnce ==
    [][\A p \in Pollers :
        /\ ( /\ Fetched(p)
             /\ proc'[p].run.status = "completed"
             /\ ~ Has(ledger, proc'[p].run.databaseId) )
           => /\ Announcing(p)'
              /\ UNCHANGED <<ledger, logged, spoken, life>>
        /\ Announced(p)
           => LET id == proc[p].run.databaseId IN
              /\ logged'[id] = proc[p].logged0 + 1
              /\ spoken'[id] = proc[p].spoken0
                    + (IF GateOn(proc[p].run.conclusion, proc[p].config) THEN 1 ELSE 0)
              /\ Cardinality(RowsOf(ledger', id)) = 1
              /\ \A other \in RunIds \ {id} :
                    /\ logged'[other] = logged[other]
                    /\ spoken'[other] = spoken[other]
                    /\ RowsOf(ledger', other) = RowsOf(ledger, other)
    ]_vars

\* C2's case: an announcement with speech has just ended
C2_Witness ==
    \E p \in Pollers :
        /\ proc[p].pc \in {"fetch", "done"}
        /\ proc[p].run.status = "completed"
        /\ proc[p].said = "ok"
        /\ logged[proc[p].run.databaseId] = 1
        /\ spoken[proc[p].run.databaseId] = 1
        /\ Has(ledger, proc[p].run.databaseId)

-----------------------------------------------------------------------------
(* C3 *)

\* C3: a completed run whose id is in the Ledger gets no call of speak, no
\* Activity Log line, and the Ledger stays as it is, whatever its conclusion
\* and the config.
C3_KnownRunSkipped ==
    [][\A p \in Pollers :
        ( /\ Fetched(p)
          /\ proc'[p].run.status = "completed"
          /\ Has(ledger, proc'[p].run.databaseId) )
        => Skipped(p)
    ]_vars

\* C3's case: the run just fetched is completed, in the Ledger, and skipped
C3_Witness ==
    \E p \in Pollers :
        /\ proc[p].pc \in {"fetch", "done"}
        /\ proc[p].run.status = "completed"
        /\ proc[p].run.conclusion = "failure"
        /\ proc[p].said = ""
        /\ ~ proc[p].config.notify_success
        /\ Has(ledger, proc[p].run.databaseId)

-----------------------------------------------------------------------------
(* C4 *)

\* C4: a run whose status is not "completed" gets no Activity Log line, no
\* Ledger row and no call of speak; a run seen unfinished with no Ledger row
\* still has none, and a later query that reports it completed announces it.
C4_UnfinishedRunDeferred ==
    /\ [][\A p \in Pollers :
            ( /\ Fetched(p)
              /\ ~ IsNone(proc'[p].run)
              /\ proc'[p].run.status # "completed" )
            => Skipped(p)
       ]_vars
    /\ [][\A id \in RunIds : pending'[id] = "unfinished" => ~ Has(ledger', id)]_vars
    /\ [][\A p \in Pollers :
            ( /\ Fetched(p)
              /\ proc'[p].run.status = "completed"
              /\ proc'[p].run.databaseId \in RunIds
              /\ pending[proc'[p].run.databaseId] = "unfinished" )
            => Announcing(p)'
       ]_vars

\* C4's case: a run that was seen unfinished is being announced
C4_Witness ==
    \E p \in Pollers :
        /\ proc[p].pc = "speak"
        /\ proc[p].run.databaseId \in RunIds
        /\ pending[proc[p].run.databaseId] = "unfinished"
        /\ logged[proc[p].run.databaseId] = 1

-----------------------------------------------------------------------------
(* C5 *)

\* C5: in the announcement of a run the Ledger write comes last, after the
\* Activity Log append and the call of speak; a process killed after the log
\* append and before the Ledger write leaves the run id out of the Ledger,
\* and the next query that reports the run completed announces it again.
C5_LedgerWriteLast ==
    /\ [][\A p \in Pollers :
            LET id == proc[p].run.databaseId IN
            ( Announcing(p) /\ ~ Has(ledger, id) /\ Has(ledger', id) )
            => /\ logged[id] = proc[p].logged0 + 1
               /\ spoken[id] = proc[p].spoken0
                    + (IF GateOn(proc[p].run.conclusion, proc[p].config) THEN 1 ELSE 0)
               /\ ~ Announcing(p)'
       ]_vars
    /\ [][\A p \in Pollers :
            LET id == proc[p].run.databaseId IN
            ( Announcing(p) /\ proc'[p].pc = "idle" /\ logged[id] > proc[p].logged0 )
            => ~ Has(ledger', id) /\ pending'[id] = "interrupted"
       ]_vars
    /\ [][\A p \in Pollers :
            ( /\ Fetched(p)
              /\ proc'[p].run.status = "completed"
              /\ proc'[p].run.databaseId \in RunIds
              /\ pending[proc'[p].run.databaseId] = "interrupted" )
            => Announcing(p)' /\ ~ Has(ledger, proc'[p].run.databaseId)
       ]_vars

\* C5's case: a run whose announcement was cut short after its log append
\* has been logged a second time
C5_Witness ==
    \E p \in Pollers :
        /\ proc[p].pc = "mark"
        /\ proc[p].run.databaseId \in RunIds
        /\ pending[proc[p].run.databaseId] = "interrupted"
        /\ logged[proc[p].run.databaseId] = 2

-----------------------------------------------------------------------------
(* C6 *)

\* C6: when the query of the Run Source times out, raises, exits non-zero or
\* lists no run, get_latest_run gives no run and the repo is skipped with no
\* Activity Log line, Ledger row or speech; the cycle goes on with the next
\* repo; and a later query of that repo that reports a completed run not in
\* the Ledger announces it.
C6_UnavailableRepoSkipped ==
    /\ [][\A p \in Pollers :
            ( /\ Fetched(p)
              /\ \/ proc'[p].res.kind \in {"timeout", "raise"}
                 \/ proc'[p].res.returncode # 0
                 \/ proc'[p].res.runs = <<>> )
            => proc'[p].run = NoRun /\ Skipped(p)
       ]_vars
    /\ [][\A p \in Pollers :
            ( /\ Fetched(p)
              /\ proc[p].repos[proc[p].i] \in unavailable
              /\ proc'[p].run.status = "completed"
              /\ ~ Has(ledger, proc'[p].run.databaseId) )
            => Announcing(p)'
       ]_vars

\* C6's case: in one cycle the first repo was unavailable and the second,
\* unavailable in an earlier cycle, is being announced
C6_Witness ==
    \E p \in Pollers :
        /\ proc[p].pc = "speak"
        /\ proc[p].i = 2
        /\ proc[p].repos[1] \in unavailable
        /\ proc[p].repos[2] \in unavailable
        /\ logged[proc[p].run.databaseId] = 1

-----------------------------------------------------------------------------
(* C7 *)

\* C7 as stated: after the speech of an announcement failed, the Ledger has
\* no row for that run.
C7_SpeechFailureLeavesNoEntry ==
    \A p \in Pollers :
        proc[p].said \in SpeechFailures => ~ Has(ledger, proc[p].run.databaseId)

\* C7 as amended: a failure of the speech command is caught inside speak and
\* the announcement goes on; the Ledger row of the run is written all the
\* same, and a later query that finds the run in the Ledger does not retry.
C7_SpeechFailureStillRecorded ==
    /\ [][\A p \in Pollers :
            ( proc[p].pc = "speak" /\ proc'[p] # proc[p] )
            => /\ proc'[p].pc = "mark"
               /\ UNCHANGED <<ledger, logged, life>>
       ]_vars
    /\ [][\A p \in Pollers :
            ( Announced(p) /\ proc[p].said \in SpeechFailures )
            => /\ Cardinality(RowsOf(ledger', proc[p].run.databaseId)) = 1
               /\ pending'[proc[p].run.databaseId] = "unspoken"
       ]_vars
    /\ [][\A p \in Pollers :
            ( /\ Fetched(p)
              /\ proc'[p].run.status = "completed"
              /\ proc'[p].run.databaseId \in RunIds
              /\ pending[proc'[p].run.databaseId] = "unspoken"
              /\ Has(ledger, proc'[p].run.databaseId) )
            => Skipped(p)
       ]_vars

\* C7's case: a run whose speech failed was reported completed again and
\* skipped
C7_Witness ==
    \E p \in Pollers :
        /\ proc[p].pc \in {"fetch", "done"}
        /\ proc[p].run.status = "completed"
        /\ proc[p].said = ""
        /\ proc[p].run.databaseId \in RunIds
        /\ pending[proc[p].run.databaseId] = "unspoken"
        /\ spoken[proc[p].run.databaseId] = 1
        /\ logged[proc[p].run.databaseId] = 1

-----------------------------------------------------------------------------
(* C8 *)

\* C8: in the announcement of a run speak is called if and only if
\* (success and notify_success) or (failure and notify_failure) or the
\* conclusion is neither; the Activity Log append and the Ledger write are
\* made whatever notify_success and notify_failure are.
C8_SpeechGate ==
    /\ [][\A p \in Pollers :
            LET id == proc[p].run.databaseId IN
            ( proc[p].pc = "speak" /\ proc'[p] # proc[p] )
            => /\ spoken'[id] = spoken[id]
                    + (IF GateOn(proc[p].run.conclusion, proc[p].config) THEN 1 ELSE 0)
               /\ (proc'[p].said = "gated")
                    <=> ~ GateOn(proc[p].run.conclusion, proc[p].config)
       ]_vars
    /\ [][\A p \in Pollers :
            Announced(p)
            => /\ logged'[proc[p].run.databaseId] = proc[p].logged0 + 1
               /\ Has(ledger', proc[p].run.databaseId)
       ]_vars

\* C8's case: an announcement with the gate off has ended: logged and
\* recorded, not spoken
C8_Witness ==
    \E p \in Pollers :
        /\ proc[p].pc \in {"fetch", "done"}
        /\ proc[p].said = "gated"
        /\ proc[p].run.conclusion = "failure"
        /\ logged[proc[p].run.databaseId] = 1
        /\ spoken[proc[p].run.databaseId] = 0
        /\ Has(ledger, proc[p].run.databaseId)

-----------------------------------------------------------------------------
(* C9 *)

\* the step is a call mark_notified(id, ...)
MarkedNow(id) ==
    \/ marks'[id] # marks[id]
    \/ \E r \in ledger' \ ledger : r.run_id = id

\* C9: was_notified(id) is false before the first mark_notified(id, ...),
\* true after it and after every further mark_notified of the id; the Ledger
\* never holds two rows of one run id; marking an id leaves was_notified of
\* every other id as it was.
C9_LedgerIdempotent ==
    /\ [][\A id \in RunIds :
            /\ Cardinality(RowsOf(ledger', id)) <= 1
            /\ marks'[id] = 0 => ~ WasNotified(ledger', id)
            /\ MarkedNow(id)
               => /\ WasNotified(ledger', id)
                  /\ \A other \in RunIds \ {id} :
                        WasNotified(ledger', other) = WasNotified(ledger, other)
       ]_vars

\* C9's case: a run id was marked a second time, with other metadata, and
\* has one row; the other id was never marked
C9_Witness ==
    \E id \in RunIds :
        /\ marks[id] >= 2
        /\ Cardinality(RowsOf(ledger, id)) = 1
        /\ \A r \in RowsOf(ledger, id) : r.conclusion = "failure" /\ r.repo = Gadgets
        /\ \E other \in RunIds \ {id} : marks[other] = 0 /\ ~ WasNotified(ledger, other)

-----------------------------------------------------------------------------
(* C10 *)

\* the instant at which a row was written: its notified_at read back as the
\* local time it is
Instant(r) == r.notified_at[1] * DayLen + r.notified_at[3] - tz

\* C10: init_db, run in any reachable state, leaves exactly the rows whose
\* notified_at is at most 7 days before the current time: older rows are
\* absent, rows within the window (a row exactly 7 days old too) stay.
C10_PurgeByAge ==
    Purge(ledger, now) = { r \in ledger : now - Instant(r) <= Retention }

-----------------------------------------------------------------------------
(* The daemon's lifecycle *)

\* the process PID_FILE names exists: it is a daemon, a starting child, or a
\* process of another user
MarkerAlive == PID_FILE # NoPid /\ ptable[PID_FILE] # "free"

\* the daemons inside run_daemon_loop
Looping == { pid \in Pids : ptable[pid] = "loop" }

\* C11: a start_daemon that finds PID_FILE naming a live process refuses: it
\* reports the daemon as already running under that process id, goes no
\* further, and leaves PID_FILE and the processes as they were.
C11_StartRefusesWhenAlive ==
    [][\A s \in Shells :
         (StartCheck(s) /\ MarkerAlive)
         => /\ shell'[s].pc = "idle"
            /\ shell'[s].out = "start:already"
            /\ shell'[s].pid = PID_FILE
            /\ PID_FILE' = PID_FILE
            /\ ptable' = ptable]_vars

\* C12 as stated: at every moment, whatever the interleaving of start, stop
\* and status, at most one daemon is inside the poll loop.
C12_AtMostOneDaemon == Cardinality(Looping) <= 1

\* C12 as amended: as long as no start, stop or status began while another
\* command, or the start-up of a forked child, was under way, at most one
\* daemon is inside the poll loop, and it is the one PID_FILE names.
C12_OneDaemonUnlessOverlap ==
    ~ overlap => /\ Cardinality(Looping) <= 1
                 /\ \A pid \in Looping : PID_FILE = pid

\* C12's case: with no overlap so far, a daemon polls and a later start
\* was refused
C12_Witness ==
    /\ ~ overlap
    /\ Cardinality(Looping) = 1
    /\ \E s \in Shells : shell[s].out = "start:already" /\ shell[s].pid \in Looping

\* the step is the daemon_running check of a start, stop or status command
\* typed in terminal s
Checked(s) == StartCheck(s) \/ StopCheck(s) \/ ShowStatus(s)

\* after the step, the command in terminal s has found the daemon not
\* running and holds no process id: start goes on to its preconditions,
\* stop and status say so
FoundNotRunning(s) ==
    /\ shell'[s].pid = NoPid
    /\ StartCheck(s) => shell'[s].pc = "start"
    /\ StopCheck(s) => shell'[s].pc = "idle" /\ shell'[s].out = "stop:notrunning"
    /\ ShowStatus(s) => shell'[s].pc = "idle" /\ shell'[s].out = "status:stopped"

\* C13: when PID_FILE names a process id under which nothing runs, the
\* check of status, start and stop finds the daemon not running, with no
\* process id, and PID_FILE is gone after it; when there is no PID_FILE, it
\* finds the daemon not running and creates none.
C13_StaleMarkerRemoved ==
    [][\A s \in Shells :
         Checked(s) =>
            /\ (PID_FILE # NoPid /\ ~ MarkerAlive)
               => FoundNotRunning(s) /\ PID_FILE' = NoPid
            /\ PID_FILE = NoPid
               => FoundNotRunning(s) /\ PID_FILE' = NoPid]_vars

\* C13's case: status read a process id from PID_FILE under which nothing
\* runs, said the daemon is not running, and PID_FILE is gone
C13_Witness ==
    \E s \in Shells :
        /\ shell[s].out = "status:stopped"
        /\ shell[s].saw # NoPid
        /\ ptable[shell[s].saw] = "free"
        /\ PID_FILE = NoPid

\* the step leaves the watch list, the config, the ledger and the processes
\* as they were
KeepsAllButMarker ==
    /\ repos' = repos
    /\ config' = config
    /\ ledger' = ledger
    /\ ptable' = ptable

\* C14 as stated: in every state show_status leaves PID_FILE, the watch
\* list, the config, the ledger and the processes exactly as they were.
C14_StatusReadOnly ==
    [][\A s \in Shells :
         ShowStatus(s) => KeepsAllButMarker /\ PID_FILE' = PID_FILE]_vars

\* C14 as amended: show_status leaves the watch list, the config, the ledger
\* and the processes as they were; it leaves PID_FILE as it was when there
\* is none or when the process it names can be signalled, and removes it
\* when that process does not exist or may not be signalled.
C14_StatusRemovesOnlyStaleMarker ==
    [][\A s \in Shells :
         ShowStatus(s) =>
            /\ KeepsAllButMarker
            /\ (PID_FILE = NoPid \/ OsKill(PID_FILE, ptable) = "ok")
               => PID_FILE' = PID_FILE
            /\ (PID_FILE # NoPid /\ OsKill(PID_FILE, ptable) # "ok")
               => PID_FILE' = NoPid]_vars

\* C14's case: status found the daemon running and PID_FILE still names it
C14_Witness ==
    \E s \in Shells :
        /\ shell[s].out = "status:running"
        /\ shell[s].pid = PID_FILE
        /\ PID_FILE \in Looping

\* C15: a start_daemon that finds the watch list empty, or gh missing,
\* refuses: it says which, forks no process and writes no PID_FILE; and
\* while the watch list is empty no process is forked, none enters the poll
\* loop, and no PID_FILE is written.
C15_StartRefusesWithoutPreconditions ==
    [][/\ \A s \in Shells :
            (StartFork(s) /\ (GetRepos(repos) = <<>> \/ shell'[s].out = "start:nogh"))
            => /\ shell'[s].pc = "idle"
               /\ shell'[s].out =
                     (IF GetRepos(repos) = <<>> THEN "start:norepos" ELSE "start:nogh")
               /\ ptable' = ptable
               /\ PID_FILE' = PID_FILE
       /\ GetRepos(repos) = <<>>
            => /\ \A pid \in Pids : ptable'[pid] \notin {"child", "loop"}
               /\ PID_FILE' = NoPid]_vars

\* C15's case: with a watch list in place, start found gh missing and
\* refused: nothing was forked and there is no PID_FILE
C15_Witness ==
    \E s \in Shells :
        /\ shell[s].out = "start:nogh"
        /\ GetRepos(repos) # <<>>
        /\ \A pid \in Pids : ptable[pid] = "free"
        /\ PID_FILE = NoPid
        /\ daemon_log = ""

\* the step ends a stop command typed in terminal s
StopReturns(s) == (StopCheck(s) \/ StopKill(s)) /\ shell'[s].pc = "idle"

\* C16 as stated: a stop that finds PID_FILE naming a live process signals
\* exactly that process and PID_FILE is gone when it returns; a stop that
\* finds no PID_FILE, or a stale one, signals nothing and says the daemon is
\* not running; after any stop there is no PID_FILE.
C16_StopRemovesMarker ==
    [][\A s \in Shells :
         /\ (StopCheck(s) /\ MarkerAlive)
            => shell'[s].pc = "stop" /\ shell'[s].pid = PID_FILE /\ ptable' = ptable
         /\ StopKill(s)
            => \A q \in Pids \ {shell[s].pid} : ptable'[q] = ptable[q]
         /\ (StopCheck(s) /\ ~ MarkerAlive)
            => shell'[s].out = "stop:notrunning" /\ ptable' = ptable
         /\ StopReturns(s) => PID_FILE' = NoPid]_vars

\* C16 as amended: a stop that finds PID_FILE naming a process it can signal
\* goes on to signal exactly that process; if the signal is delivered, the
\* process ends and PID_FILE is gone when stop returns; if the process has
\* gone meanwhile, stop reports an error, signals nothing and leaves
\* PID_FILE as it is.  A stop that finds no PID_FILE, or one naming a process
\* that does not exist or may not be signalled, signals nothing, says the
\* daemon is not running, and leaves no PID_FILE.
C16_StopRemovesMarkerIfSignalled ==
    [][\A s \in Shells :
         /\ (StopCheck(s) /\ PID_FILE # NoPid /\ OsKill(PID_FILE, ptable) = "ok")
            => shell'[s].pc = "stop" /\ shell'[s].pid = PID_FILE /\ ptable' = ptable
                 /\ PID_FILE' = PID_FILE
         /\ (StopCheck(s) /\ (PID_FILE = NoPid \/ OsKill(PID_FILE, ptable) # "ok"))
            => shell'[s].pc = "idle" /\ shell'[s].out = "stop:notrunning"
                 /\ ptable' = ptable /\ PID_FILE' = NoPid
         /\ (StopKill(s) /\ OsKill(shell[s].pid, ptable) = "ok")
            => shell'[s].pc = "idle" /\ shell'[s].out = "stop:ok"
                 /\ ptable' = [ptable EXCEPT ![shell[s].pid] = "free"]
                 /\ PID_FILE' = NoPid
         /\ (StopKill(s) /\ OsKill(shell[s].pid, ptable) # "ok")
            => shell'[s].pc = "idle" /\ shell'[s].out = "stop:error"
                 /\ ptable' = ptable /\ PID_FILE' = PID_FILE]_vars

\* C16's case: stop signalled the daemon PID_FILE named; the daemon is gone
\* and so is PID_FILE
C16_Witness ==
    \E s \in Shells :
        /\ shell[s].out = "stop:ok"
        /\ shell[s].saw = shell[s].pid
        /\ ptable[shell[s].pid] = "free"
        /\ Looping = {}
        /\ PID_FILE = NoPid

\* C17: when an exception leaves check_repos or the sleep inside the loop of
\* a daemon, the daemon ends and there is no PID_FILE once run_daemon_loop
\* has returned: a start that follows finds no marker of the failed daemon.
C17_FailedLoopRemovesMarker ==
    [][\A pid \in Pids :
         LoopFail(pid)
         => /\ ptable'[pid] = "free"
            /\ PID_FILE' = NoPid
            /\ ~ DaemonRunning(PID_FILE', ptable').running]_vars

\* C17's case: a daemon that start had forked, and that had written
\* PID_FILE, failed inside its loop: it is gone and so is PID_FILE
C17_Witness ==
    /\ daemon_log = "error"
    /\ \E s \in Shells : shell[s].out = "start:ok" /\ ptable[shell[s].pid] = "free"
    /\ Looping = {}
    /\ PID_FILE = NoPid

-----------------------------------------------------------------------------
(* The daemon loop *)

\* the last query of the Run Source by process p timed out, raised, or
\* exited non-zero
SourceFailed(p) ==
    \/ proc[p].res.kind \in {"timeout", "raise"}
    \/ proc[p].res.returncode # 0

\* the speech command of the announcement process p is in failed
SpeechFailed(p) == proc[p].said \in SpeechFailures

\* C18: no failure of the Run Source or of the Speech Notifier ends the
\* daemon loop: the cycle it happens in runs to its end, the daemon sleeps,
\* and the next cycle queries the Run Source again; and so on for ever.
C18_LoopSurvivesFailures ==
    /\ [](proc["daemon"].pc # "exited")
    /\ (SourceFailed("daemon") \/ SpeechFailed("daemon")) ~> (proc["daemon"].pc = "done")
    /\ (proc["daemon"].pc = "done") ~> (proc["daemon"].pc = "idle")
    /\ (proc["daemon"].pc = "idle" /\ GetRepos(repos) # <<>>)
          ~> (proc["daemon"].pc = "fetch" /\ proc["daemon"].i = 1)

\* C18's case: the daemon begins a cycle after cycles in which the Run
\* Source gave no answer for a repo and the speech command failed for a run
C18_Witness ==
    /\ proc["daemon"].pc = "fetch"
    /\ proc["daemon"].i = 1
    /\ unavailable # {}
    /\ \E id \in RunIds : pending[id] = "unspoken"

-----------------------------------------------------------------------------
(* The watch list *)

\* C19: an identifier with exactly one separator that is not in the watch
\* list is added with success, and the remove of it that follows succeeds
\* and leaves get_repos() as it was before the add.
C19_AddThenRemoveRestores ==
    [][\A repo \in Args :
         /\ (AddRepo(repo) /\ Count(repo, "/") = 1 /\ ~ In(repo, GetRepos(repos)))
            => last'.ret
         /\ (RemoveRepo(repo) /\ last.op = "add" /\ last.arg = repo /\ last.ret)
            => last'.ret /\ GetRepos(repos') = last.watch]_vars

\* C20: add_repo of an identifier with no separator, or with more than one,
\* returns False and leaves REPOS_FILE, and so the watch list, as it was;
\* remove_repo of an identifier that is not in the watch list does the same.
C20_InvalidRejected ==
    [][\A repo \in Args :
         /\ (AddRepo(repo) /\ Count(repo, "/") # 1)
            => ~ last'.ret /\ repos' = repos /\ GetRepos(repos') = GetRepos(repos)
         /\ (RemoveRepo(repo) /\ ~ In(repo, GetRepos(repos)))
            => ~ last'.ret /\ repos' = repos /\ GetRepos(repos') = GetRepos(repos)]_vars

\* C20's case: an identifier with two separators was refused, and the watch
\* list, not empty, is what it was
C20_Witness ==
    /\ last.op = "add"
    /\ Count(last.arg, "/") > 1
    /\ ~ last.ret
    /\ GetRepos(repos) = last.watch
    /\ GetRepos(repos) # <<>>

\* the list has no identifier twice
NoDuplicate(list) ==
    \A j, k \in 1..Len(list) : list[j] = list[k] => j = k

\* C21: from an empty watch list, after any adds and removes made one at a
\* time, every identifier get_repos() returns has exactly one separator and
\* none is returned twice; and add_repo of an identifier that is in the
\* watch list returns False and leaves the watch list as it was.
C21_WatchSetWellFormed ==
    [][/\ \A k \in 1..Len(GetRepos(repos')) : Count(GetRepos(repos')[k], "/") = 1
       /\ NoDuplicate(GetRepos(repos'))
       /\ \A repo \in Args :
            (AddRepo(repo) /\ In(repo, GetRepos(repos)))
               => ~ last'.ret /\ GetRepos(repos') = GetRepos(repos)]_vars

-----------------------------------------------------------------------------
(* The watch list and the daemon that reads it *)

\* C22: the rewrite of REPOS_FILE is atomic for the daemon that runs at the
\* same time: at every moment of a remove_repo (or add_repo), get_repos()
\* reads either the whole watch list of before the command or the whole
\* watch list of after it, never an empty or a partial one.
C22_RewriteAtomic ==
    last.op = "removing"
       => GetRepos(repos) \in {last.watch, Remove(last.watch, last.arg)}

-----------------------------------------------------------------------------
(* The configuration *)

\* the text is a decimal integer greater than zero
PositiveInteger(value) == IntOf(value).ok /\ IntOf(value).n > 0

\* C23: after any configure commands the check_interval stored, which is
\* the one get_check_interval() hands to the sleep of the daemon loop, is a
\* positive integer; configure check_interval with a value that is not a
\* positive integer is rejected and leaves the configuration as it was.
C23_IntervalPositive ==
    [][/\ config'.check_interval > 0
       /\ \A s \in Shells, value \in IntervalTexts :
            (ConfigureCheckInterval(s, value) /\ ~ PositiveInteger(value))
               => config' = config /\ shell'[s].out = "config:invalid"]_vars

-----------------------------------------------------------------------------
(* The daemon and a check command at the same time *)

\* C24: a check command and a daemon cycle that both find the same new
\* completed run announce it once between them: no run is logged twice or
\* spoken twice.
C24_ConcurrentAnnouncedOnce ==
    \A id \in RunIds : logged[id] <= 1 /\ spoken[id] <= 1

-----------------------------------------------------------------------------
(* The daemon and the runs of the Run Source *)

\* the run is the newest of the repo and has finished
CompletedLatest(repo, id) ==
    latest[repo].databaseId = id /\ latest[repo].status = "completed"

\* the run was logged and is in the ledger
Recorded(id) == logged[id] >= 1 /\ Has(ledger, id)

\* a cycle has found the run completed: it is announcing it or has done so
SeenCompleted(id) ==
    \/ logged[id] >= 1
    \/ Has(ledger, id)
    \/ \E p \in Pollers :
         /\ proc[p].pc \in {"log", "speak", "mark"}
         /\ proc[p].run.databaseId = id

\* a newer run took the run's place before any cycle found it completed
SupersededUnseen(repo, id) ==
    latest[repo].databaseId # id /\ ~ SeenCompleted(id)

\* C25: while the daemon loop runs and the repo stays in the watch list, a
\* completed run that stays the newest of its repo is logged and recorded
\* in the ledger in the end, provided the Run Source answers the query for
\* the repo in the end; and a run superseded before any cycle found it
\* completed is never examined: it is never logged, spoken or recorded.
C25_CompletedRunRecorded ==
    /\ \A repo \in Repos : \A id \in RunsOf(repo) :
         CompletedLatest(repo, id) ~> (Recorded(id) \/ latest[repo].databaseId # id)
    /\ [][\A repo \in Repos : \A id \in RunsOf(repo) :
            SupersededUnseen(repo, id)
               => /\ latest'[repo].databaseId # id /\ ~ SeenCompleted(id)'
                  /\ logged'[id] = 0 /\ spoken'[id] = 0]_vars

\* C25's case: after a query the Run Source did not answer, the run of one
\* repo, completed and still its newest, is logged and in the ledger; the
\* run of the other repo, seen unfinished, was superseded and the daemon has
\* since fetched the newer run without examining the old one
C25_Witness ==
    /\ CompletedLatest(Widgets, "41")
    /\ Recorded("41")
    /\ unavailable # {}
    /\ SupersededUnseen(Gadgets, "42")
    /\ pending["42"] = "unfinished"
    /\ proc["daemon"].run = NewerRun

-----------------------------------------------------------------------------
(* The marker of a polling daemon *)

\* C26 as stated: whenever a daemon is inside the poll loop, PID_FILE exists
\* and holds that daemon's process id: the child writes it before its first
\* cycle, no command removes or overwrites it while the daemon polls, and
\* the cleanup of a daemon that leaves the loop removes PID_FILE only when
\* PID_FILE holds its own process id.
C26_MarkerHeldWhileLooping ==
    [][/\ \A pid \in Pids : ChildStart(pid) => PID_FILE' = pid
       /\ \A pid \in Looping' : PID_FILE' = pid
       /\ \A pid \in Pids :
            (LoopFail(pid) /\ PID_FILE # pid) => PID_FILE' = PID_FILE]_vars

\* C26 as amended: as long as no start, stop or status began while another
\* command, or the start-up of a forked child, was under way, a daemon
\* inside the poll loop is named by PID_FILE from its first cycle on, and a
\* daemon that leaves the loop by an exception finds its own process id in
\* PID_FILE and removes it.
C26_MarkerHeldUnlessOverlap ==
    [][/\ \A pid \in Pids : ChildStart(pid) => PID_FILE' = pid
       /\ ~ overlap' =>
            /\ \A pid \in Looping' : PID_FILE' = pid
            /\ \A pid \in Pids :
                 LoopFail(pid) => PID_FILE = pid /\ PID_FILE' = NoPid]_vars

\* C26's case: with no overlap so far, a status command has found the daemon
\* that polls, and PID_FILE still holds that daemon's process id
C26_Witness ==
    /\ ~ overlap
    /\ \E pid \in Looping :
         /\ PID_FILE = pid
         /\ \E s \in Shells : shell[s].out = "status:running" /\ shell[s].pid = pid

====
